---- MODULE Spec2Model ----
(***************************************************************************)
(* Event normalisation and timeline reconciliation of the research chat    *)
(* client (frontend/src/App.tsx): the stream event handler onUpdateEvent,  *)
(* the archive effect, handleSubmit and handleCancel.                      *)
(*                                                                         *)
(* An optional JavaScript value (undefined / null / missing property) is   *)
(* modelled as a sequence of length 0 or 1: <<>> is absent, <<v>> is v.    *)
(***************************************************************************)
EXTENDS Integers, Sequences, FiniteSets, TLC

VARIABLES
    processedEventsTimeline, \* useState<ProcessedEvent[]>: the live timeline
    historicalActivities,    \* useState<Record<string, ProcessedEvent[]>>
    hasFinalizeEventOccurred,\* useRef(false): the terminal flag
    messages,                \* thread.messages
    isLoading,               \* thread.isLoading
    submitted,               \* last request handed to thread.submit, <<>> if none
    effectPending,           \* a dependency of the archive effect changed
    op,                      \* the handler that ran last
    ev,                      \* the stream event the last step handled (or is to handle)
    raised,                  \* the last handler threw
    archivedKey,             \* key the last step wrote in the store, <<>> if none
    prior,                   \* for a submit or cancel: was the timeline non-empty
                             \* and the flag set when it was issued; else <<>>
    form,                    \* InputForm state (useState of the form component)
    typed,                   \* the text the last step passed to handleSubmit
    replaced,                \* the last step wrote the store under a key it held
    written,                 \* history: the store was written since the last
                             \* submit or cancel
    archiveDue               \* history: "no", "terminal" (a terminal activity was
                             \* seen in this run and is not archived yet) or
                             \* "stalled" (and loading went false meanwhile with
                             \* no agent message with an id at the end)

vars == <<processedEventsTimeline, historicalActivities, hasFinalizeEventOccurred,
          messages, isLoading, submitted, effectPending, op, ev, raised,
          archivedKey, prior, form, typed, replaced, written, archiveDue>>

----------------------------------------------------------------------------
(* Bounds of the model *)

MaxList == 2        \* longest query_list / follow_up_queries
MaxSources == 2     \* longest sources_gathered
MaxTimeline == 2    \* longest live timeline in the lifecycle specification
MaxMessages == 2    \* longest thread.messages
MaxLabelled == 4    \* longest sources_gathered whose records are all objects
MaxValueLen == 3    \* longest text entered in a numeric field

----------------------------------------------------------------------------
(* Optional values and string helpers *)

None == <<>>
Some(v) == <<v>>
Opt(S) == {None} \cup {Some(v) : v \in S}

SeqsUpTo(S, n) == UNION {[1..k -> S] : k \in 0..n}

\* Array.prototype.join
RECURSIVE Join(_, _)
Join(list, sep) ==
    IF Len(list) = 0 THEN ""
    ELSE IF Len(list) = 1 THEN list[1]
    ELSE list[1] \o sep \o Join(Tail(list), sep)

\* [...new Set(list)]: first occurrences, in order
RECURSIVE Unique(_)
Unique(list) ==
    IF Len(list) = 0 THEN <<>>
    ELSE LET rest == Unique(SubSeq(list, 1, Len(list) - 1))
             x == list[Len(list)]
         IN IF \E i \in 1..Len(rest) : rest[i] = x THEN rest ELSE Append(rest, x)

\* Array.prototype.slice(0, n)
Slice(list, n) == SubSeq(list, 1, IF Len(list) < n THEN Len(list) ELSE n)

\* a || b on strings: the empty string is falsy
OrElse(a, b) == IF a = "" THEN b ELSE a

----------------------------------------------------------------------------
(* Stream events *)

ChainStart == "on_chain_start"
ChainEnd == "on_chain_end"

GenerateQuery == "generate_query"
WebResearch == "web_research"
Reflection == "reflection"
FinalizeAnswer == "finalize_answer"
Stages == {GenerateQuery, WebResearch, Reflection, FinalizeAnswer}

Activity(title, data) == [title |-> title, data |-> data]

\* what running the handler's classification part gives: the processedEvent
\* (None for null), whether the terminal flag is set, whether it threw
Result(act, fin, err) == [act |-> act, fin |-> fin, err |-> err]
NoActivity == Result(None, FALSE, FALSE)
Threw == Result(None, FALSE, TRUE)
Produced(title, data) == Result(Some(Activity(title, data)), FALSE, FALSE)

\* an output object, with every property the handler reads
Output(ql, sg, suff, fu) ==
    [query_list |-> ql, sources_gathered |-> sg,
     is_sufficient |-> suff, follow_up_queries |-> fu]
EmptyOutput == Output(None, None, None, None)

\* const eventType = event.event || event.type
EventType(e) == IF e.event # None THEN e.event ELSE e.type

\* sources.map((s) => s.label) throws on a null source record
HasNullSource(sources) == \E i \in 1..Len(sources) : sources[i] = None

\* sources.map((s) => s.label).filter(Boolean), for records that are not null
RECURSIVE TruthyLabels(_)
TruthyLabels(sources) ==
    IF Len(sources) = 0 THEN <<>>
    ELSE LET l == sources[1][1].label
             rest == TruthyLabels(Tail(sources))
         IN IF l = None \/ l = Some("") THEN rest ELSE <<l[1]>> \o rest

\* variant: the count is the number of distinct labels
WebResearchResultCountingLabels(out) ==
    LET sources == IF out.sources_gathered = None THEN <<>>
                   ELSE out.sources_gathered[1]
    IN IF HasNullSource(sources) THEN Threw
       ELSE LET uniqueLabels == Unique(TruthyLabels(sources))
                numSources == Len(uniqueLabels)
                exampleLabels == Join(Slice(uniqueLabels, 3), ", ")
            IN Produced("Web Research",
                        "Gathered " \o ToString(numSources)
                            \o " sources. Related to: "
                            \o OrElse(exampleLabels, "N/A") \o ".")

\* the web_research activity built from an output object
WebResearchResult(out) ==
    LET sources == IF out.sources_gathered = None THEN <<>>
                   ELSE out.sources_gathered[1]
        numSources == Len(sources)
    IN IF HasNullSource(sources) THEN Threw
       ELSE LET uniqueLabels == Unique(TruthyLabels(sources))
                exampleLabels == Join(Slice(uniqueLabels, 3), ", ")
            IN Produced("Web Research",
                        "Gathered " \o ToString(numSources)
                            \o " sources. Related to: "
                            \o OrElse(exampleLabels, "N/A") \o ".")

\* the reflection activity built from an output object
ReflectionResult(out) ==
    Produced("Reflection",
             IF out.is_sufficient = Some(TRUE)
             THEN "Search successful, generating final answer."
             ELSE "Need more information, searching for "
                    \o OrElse(IF out.follow_up_queries = None THEN ""
                              ELSE Join(out.follow_up_queries[1], ", "),
                              "additional info"))

\* FinalizeResult without hasFinalizeEventOccurredRef.current = true
FinalizeResultWithoutFlag ==
    Result(Some(Activity("Finalizing Answer",
                         "Composing and presenting the final answer.")),
           FALSE, FALSE)

\* variant: the flag is set and no activity built
FinalizeResultWithoutActivity == Result(None, TRUE, FALSE)

FinalizeResult ==
    Result(Some(Activity("Finalizing Answer",
                         "Composing and presenting the final answer.")),
           TRUE, FALSE)

\* the first block of onUpdateEvent: events with an event type and a name
TracedForm(e) ==
    LET eventType == EventType(e)
        isStart == eventType = Some(ChainStart)
    IN IF eventType \notin {Some(ChainEnd), Some(ChainStart)} THEN NoActivity
       ELSE IF e.name = Some(GenerateQuery) /\ e.data # None THEN
            LET output == e.data[1].output
            IN IF output # None /\ output[1].query_list # None
               THEN Produced("Generating Search Queries",
                             Join(output[1].query_list[1], ", "))
               ELSE IF isStart
               THEN Produced("Generating Search Queries", "Creating search queries...")
               ELSE NoActivity
       ELSE IF e.name = Some(WebResearch) /\ e.data # None THEN
            LET output == e.data[1].output
            IN IF output # None THEN WebResearchResult(output[1])
               ELSE IF isStart THEN Produced("Web Research", "Searching the web...")
               ELSE NoActivity
       ELSE IF e.name = Some(Reflection) /\ e.data # None THEN
            LET output == e.data[1].output
            IN IF output # None THEN ReflectionResult(output[1])
               ELSE IF isStart
               THEN Produced("Reflection", "Analyzing gathered information...")
               ELSE NoActivity
       ELSE IF e.name = Some(FinalizeAnswer) THEN
            IF isStart THEN FinalizeResult ELSE NoActivity
       ELSE NoActivity

\* FlattenedForm with a final else branch that reports the unknown event
FlattenedFormWithDefault(e) ==
    IF e.generate_query # None THEN
        Produced("Generating Search Queries",
                 OrElse(IF e.generate_query[1].query_list = None THEN ""
                        ELSE Join(e.generate_query[1].query_list[1], ", "),
                        "Creating queries..."))
    ELSE IF e.web_research # None THEN WebResearchResult(e.web_research[1])
    ELSE IF e.reflection # None THEN ReflectionResult(e.reflection[1])
    ELSE IF e.finalize_answer # None THEN FinalizeResult
    ELSE Produced("Processing", "Working...")

\* the fallback block of onUpdateEvent: events keyed by the stage's name
FlattenedForm(e) ==
    IF e.generate_query # None THEN
        Produced("Generating Search Queries",
                 OrElse(IF e.generate_query[1].query_list = None THEN ""
                        ELSE Join(e.generate_query[1].query_list[1], ", "),
                        "Creating queries..."))
    ELSE IF e.web_research # None THEN WebResearchResult(e.web_research[1])
    ELSE IF e.reflection # None THEN ReflectionResult(e.reflection[1])
    ELSE IF e.finalize_answer # None THEN FinalizeResult
    ELSE NoActivity

\* variant: the second block is tried first
ClassifyFlattenedFirst(e) ==
    LET flattened == FlattenedForm(e)
    IN IF flattened.err \/ flattened.act # None THEN flattened ELSE TracedForm(e)

\* classification as onUpdateEvent does it: the fallback runs only when the
\* first block left processedEvent null (and did not throw)
Classify(e) ==
    LET traced == TracedForm(e)
    IN IF traced.err \/ traced.act # None THEN traced ELSE FlattenedForm(e)

\* an event object, with every property the handler reads
Event(event, type, name, data, gq, wr, rf, fa) ==
    [event |-> event, type |-> type, name |-> name, data |-> data,
     generate_query |-> gq, web_research |-> wr, reflection |-> rf,
     finalize_answer |-> fa]
Traced(type, name, data) == Event(Some(type), None, Some(name), data, None, None, None, None)
Data(output) == Some([output |-> output])

----------------------------------------------------------------------------
(* Inputs *)

Queries == {"q1", "q2"}
QueryLists == SeqsUpTo(Queries, MaxList)

\* a source record: null, or an object whose label may be missing or empty
SourceRecords == {None} \cup {Some([label |-> l]) : l \in Opt({"a", "b", ""})}
SourceLists == SeqsUpTo(SourceRecords, MaxSources)

Outputs ==
    {Output(ql, None, None, None) : ql \in Opt(QueryLists)}
    \cup {Output(None, sg, None, None) : sg \in Opt(SourceLists)}
    \cup {Output(None, None, suff, fu) : suff \in Opt(BOOLEAN), fu \in Opt(QueryLists)}

DataValues == {None, Data(None)} \cup {Data(Some(o)) : o \in Outputs}

EventTypes == {ChainStart, ChainEnd, "on_tool_start"}
Names == Stages \cup {"other_node"}

\* events with no stage key
TracedEvents ==
    {Event(t, ty, n, d, None, None, None, None) :
        t \in Opt(EventTypes), ty \in Opt({ChainStart, ChainEnd}),
        n \in Opt(Names), d \in DataValues}

\* the stage keys K are present; key k holds o, the others an empty object
Keyed(K, k, o, s) == IF s \notin K THEN None ELSE IF s = k THEN Some(o) ELSE Some(EmptyOutput)

\* events with no event type, name or data, and any set of stage keys
FlatEvents ==
    {Event(None, None, None, None,
           Keyed(K, k, o, GenerateQuery), Keyed(K, k, o, WebResearch),
           Keyed(K, k, o, Reflection), Keyed(K, k, o, FinalizeAnswer)) :
        K \in SUBSET Stages, k \in Stages, o \in Outputs}

\* events with an event type and a name that carry a stage key as well
HybridEvents ==
    {Event(Some(t), None, Some(n), d,
           Keyed({k}, k, EmptyOutput, GenerateQuery), Keyed({k}, k, EmptyOutput, WebResearch),
           Keyed({k}, k, EmptyOutput, Reflection), Keyed({k}, k, EmptyOutput, FinalizeAnswer)) :
        t \in EventTypes, n \in Names, k \in Stages,
        d \in {None, Data(None), Data(Some(EmptyOutput))}}

\* source lists of objects only, long enough for more than three labels
Labels == {"a", "b", "c", "d"}
LabelledRecords == {Some([label |-> l]) : l \in Opt(Labels)}
LabelledLists == SeqsUpTo(LabelledRecords, MaxLabelled)

\* web_research end events of both shapes that carry such a list
WebResearchEvents ==
    {Traced(ChainEnd, WebResearch, Data(Some(Output(None, Some(sg), None, None)))) :
        sg \in LabelledLists}
    \cup {Event(None, None, None, None,
                None, Some(Output(None, Some(sg), None, None)), None, None) :
            sg \in LabelledLists}

Events == TracedEvents \cup FlatEvents \cup HybridEvents \cup WebResearchEvents

\* the events the engine sends in the lifecycle specification
RunEvents ==
    {Traced(ChainStart, GenerateQuery, Data(None)),
     Event(None, None, None, None, None, None, None, Some(EmptyOutput)),
     Traced("on_tool_start", "other_node", None)}

\* messages of the thread: the handlers read type and id
Message(type, id) == [type |-> type, id |-> id]
MessagePool ==
    {Message("ai", Some("m1")), Message("ai", Some("m2")),
     Message("ai", None), Message("human", Some("u1"))}

\* text typed by the user, as a sequence of characters
Texts == {<<>>, <<" ", " ">>, <<" ", "h", "i", " ">>}
Times == {1}

Configs ==
    {[query_generator_model |-> "gemini-2.0-flash",
      reflection_model |-> "gemini-2.5-flash-preview-04-17",
      answer_model |-> "gemini-2.5-flash-preview-04-17",
      number_of_initial_queries |-> 3, max_research_loops |-> 3,
      enable_thinking |-> t] : t \in Opt({TRUE})}

\* String.prototype.trim
RECURSIVE TrimStart(_)
TrimStart(text) ==
    IF Len(text) > 0 /\ text[1] = " " THEN TrimStart(Tail(text)) ELSE text
RECURSIVE TrimEnd(_)
TrimEnd(text) ==
    IF Len(text) > 0 /\ text[Len(text)] = " "
    THEN TrimEnd(SubSeq(text, 1, Len(text) - 1)) ELSE text
Trim(text) == TrimEnd(TrimStart(text))

----------------------------------------------------------------------------
(* State *)

NoHistory == [k \in {} |-> <<>>]

\* IsAgentWithId without the test of the message type
HasId(m) == m.id # None /\ m.id # Some("")

\* lastMessage.type === "ai" && lastMessage.id
IsAgentWithId(m) == m.type = "ai" /\ m.id # None /\ m.id # Some("")

\* InputForm's useState initial values
InitialForm ==
    [internalInputValue |-> <<>>,
     effort |-> "medium",
     queryGeneratorModel |-> "gemini-2.0-flash",
     reflectionModel |-> "gemini-2.5-flash-preview-04-17",
     answerModel |-> "gemini-2.5-flash-preview-04-17",
     numberOfQueries |-> 3,
     maxLoops |-> 3]

\* the state of a freshly loaded page
Init ==
    /\ processedEventsTimeline = <<>>
    /\ historicalActivities = NoHistory
    /\ hasFinalizeEventOccurred = FALSE
    /\ messages = <<>>
    /\ isLoading = FALSE
    /\ submitted = None
    /\ effectPending = TRUE      \* effects run once after mounting
    /\ raised = FALSE
    /\ archivedKey = None
    /\ prior = None
    /\ form = InitialForm
    /\ typed = None
    /\ replaced = FALSE
    /\ written = FALSE
    /\ archiveDue = "no"
    /\ op = "load"
    /\ ev = None

\* the message list ends in an agent-authored message that has an id
EndsInAgentMessage(msgs) ==
    /\ Len(msgs) > 0
    /\ msgs[Len(msgs)].type = "ai"
    /\ msgs[Len(msgs)].id \notin {None, Some("")}

\* archiveDue after a step that neither submits, cancels nor archives
DueAfter(seen, loading, msgs) ==
    IF archiveDue = "no" /\ ~seen THEN "no"
    ELSE IF archiveDue = "stalled" \/ (~loading /\ ~EndsInAgentMessage(msgs))
    THEN "stalled" ELSE "terminal"

----------------------------------------------------------------------------
(* Handlers *)

\* variant: an activity the timeline already holds is not appended again
OnUpdateEventDeduplicating(e) ==
    LET r == Classify(e)
    IN /\ hasFinalizeEventOccurred' = (hasFinalizeEventOccurred \/ r.fin)
       /\ processedEventsTimeline' =
            IF r.act # None
                  /\ \A i \in 1..Len(processedEventsTimeline) :
                        processedEventsTimeline[i] # r.act[1]
            THEN Append(processedEventsTimeline, r.act[1])
            ELSE processedEventsTimeline
       /\ effectPending' = (effectPending \/ r.act # None)
       /\ raised' = r.err
       /\ op' = "event"
       /\ ev' = Some(e)
       /\ archivedKey' = None
       /\ submitted' = None
       /\ prior' = None
       /\ typed' = None
       /\ replaced' = FALSE
       /\ archiveDue' = DueAfter(r.fin, isLoading, messages)
       /\ UNCHANGED <<historicalActivities, messages, isLoading, form, written>>

\* onUpdateEvent: classify the event, set the terminal flag, append
OnUpdateEvent(e) ==
    LET r == Classify(e)
    IN /\ hasFinalizeEventOccurred' = (hasFinalizeEventOccurred \/ r.fin)
       /\ processedEventsTimeline' =
            IF r.act # None THEN Append(processedEventsTimeline, r.act[1])
            ELSE processedEventsTimeline
       /\ effectPending' = (effectPending \/ r.act # None)
       /\ raised' = r.err
       /\ op' = "event"
       /\ ev' = Some(e)
       /\ archivedKey' = None
       /\ submitted' = None
       /\ prior' = None
       /\ typed' = None
       /\ replaced' = FALSE
       /\ archiveDue' = DueAfter(r.fin, isLoading, messages)
       /\ UNCHANGED <<historicalActivities, messages, isLoading, form, written>>

\* WithEntry storing the timeline without its first activity
WithEntryDroppingFirst(prev, id, timeline) ==
    [k \in DOMAIN prev \cup {id} |->
        IF k = id THEN (IF timeline = <<>> THEN timeline ELSE Tail(timeline))
        ELSE prev[k]]

\* variant: the new entry alone, the earlier ones dropped
WithEntryAlone(prev, id, timeline) == [k \in {id} |-> timeline]

\* { ...prev, [id]: [...timeline] }
WithEntry(prev, id, timeline) ==
    [k \in DOMAIN prev \cup {id} |-> IF k = id THEN timeline ELSE prev[k]]

\* variant: the effect leaves the terminal flag as it is
ArchiveEffectKeepingFlag ==
    /\ effectPending
    /\ effectPending' = FALSE
    /\ IF hasFinalizeEventOccurred /\ ~isLoading /\ Len(messages) > 0
       THEN LET lastMessage == messages[Len(messages)]
            IN /\ IF IsAgentWithId(lastMessage)
                  THEN /\ historicalActivities' =
                            WithEntry(historicalActivities, lastMessage.id[1],
                                      processedEventsTimeline)
                       /\ archivedKey' = lastMessage.id
                       /\ written' = TRUE
                       /\ archiveDue' = "no"
                  ELSE /\ UNCHANGED <<historicalActivities, written>>
                       /\ archivedKey' = None
                       /\ archiveDue' = DueAfter(FALSE, isLoading, messages)
               /\ UNCHANGED hasFinalizeEventOccurred
       ELSE /\ UNCHANGED <<historicalActivities, hasFinalizeEventOccurred, written>>
            /\ archivedKey' = None
            /\ archiveDue' = DueAfter(FALSE, isLoading, messages)
    /\ op' = "effect"
    /\ raised' = FALSE
    /\ submitted' = None
    /\ prior' = None
    /\ typed' = None
    /\ replaced' = (archivedKey' # None /\ archivedKey'[1] \in DOMAIN historicalActivities)
    /\ ev' = None
    /\ UNCHANGED <<processedEventsTimeline, messages, isLoading, form>>

\* the effect on [thread.messages, thread.isLoading, processedEventsTimeline]
ArchiveEffect ==
    /\ effectPending
    /\ effectPending' = FALSE
    /\ IF hasFinalizeEventOccurred /\ ~isLoading /\ Len(messages) > 0
       THEN LET lastMessage == messages[Len(messages)]
            IN /\ IF IsAgentWithId(lastMessage)
                  THEN /\ historicalActivities' =
                            WithEntry(historicalActivities, lastMessage.id[1],
                                      processedEventsTimeline)
                       /\ archivedKey' = lastMessage.id
                       /\ written' = TRUE
                       /\ archiveDue' = "no"
                  ELSE /\ UNCHANGED <<historicalActivities, written>>
                       /\ archivedKey' = None
                       /\ archiveDue' = DueAfter(FALSE, isLoading, messages)
               /\ hasFinalizeEventOccurred' = FALSE
       ELSE /\ UNCHANGED <<historicalActivities, hasFinalizeEventOccurred, written>>
            /\ archivedKey' = None
            /\ archiveDue' = DueAfter(FALSE, isLoading, messages)
    /\ op' = "effect"
    /\ raised' = FALSE
    /\ submitted' = None
    /\ prior' = None
    /\ typed' = None
    /\ replaced' = (archivedKey' # None /\ archivedKey'[1] \in DOMAIN historicalActivities)
    /\ ev' = None
    /\ UNCHANGED <<processedEventsTimeline, messages, isLoading, form>>

\* what prior records of the state a submit or cancel is issued in
Prior == [live |-> processedEventsTimeline # <<>>, flag |-> hasFinalizeEventOccurred]

\* the request handleSubmit hands to thread.submit
Request(text, config, now) ==
    [messages |-> Append(messages,
                         [type |-> "human", content |-> text,
                          id |-> Some(ToString(now))]),
     configurable |->
        [config EXCEPT !.enable_thinking =
            IF config.enable_thinking = Some(TRUE) THEN Some(TRUE) ELSE Some(FALSE)]]

\* HandleSubmit without hasFinalizeEventOccurredRef.current = false
HandleSubmitKeepingFlag(text, config, now) ==
    /\ IF Trim(text) = <<>>
       THEN /\ submitted' = None
            /\ UNCHANGED <<processedEventsTimeline, hasFinalizeEventOccurred,
                           isLoading, effectPending, written, archiveDue>>
       ELSE /\ processedEventsTimeline' = <<>>
            /\ UNCHANGED hasFinalizeEventOccurred
            /\ submitted' = Some(Request(text, config, now))
            /\ isLoading' = TRUE
            /\ effectPending' = TRUE
            /\ written' = FALSE
            /\ archiveDue' = "no"
    /\ op' = "submit"
    /\ typed' = Some(text)
    /\ replaced' = FALSE
    /\ prior' = Some(Prior)
    /\ raised' = FALSE
    /\ archivedKey' = None
    /\ ev' = None
    /\ UNCHANGED <<historicalActivities, messages>>

\* variant: the guard tests the text as typed, not trimmed
HandleSubmitUntrimmed(text, config, now) ==
    /\ IF text = <<>>
       THEN /\ submitted' = None
            /\ UNCHANGED <<processedEventsTimeline, hasFinalizeEventOccurred,
                           isLoading, effectPending, written, archiveDue>>
       ELSE /\ processedEventsTimeline' = <<>>
            /\ hasFinalizeEventOccurred' = FALSE
            /\ submitted' = Some(Request(text, config, now))
            /\ isLoading' = TRUE
            /\ effectPending' = TRUE
            /\ written' = FALSE
            /\ archiveDue' = "no"
    /\ op' = "submit"
    /\ typed' = Some(text)
    /\ replaced' = FALSE
    /\ prior' = Some(Prior)
    /\ raised' = FALSE
    /\ archivedKey' = None
    /\ ev' = None
    /\ UNCHANGED <<historicalActivities, messages>>

\* handleSubmit, and thread.submit starting the stream
HandleSubmit(text, config, now) ==
    /\ IF Trim(text) = <<>>
       THEN /\ submitted' = None
            /\ UNCHANGED <<processedEventsTimeline, hasFinalizeEventOccurred,
                           isLoading, effectPending, written, archiveDue>>
       ELSE /\ processedEventsTimeline' = <<>>
            /\ hasFinalizeEventOccurred' = FALSE
            /\ submitted' = Some(Request(text, config, now))
            /\ isLoading' = TRUE
            /\ effectPending' = TRUE
            /\ written' = FALSE
            /\ archiveDue' = "no"
    /\ op' = "submit"
    /\ typed' = Some(text)
    /\ replaced' = FALSE
    /\ prior' = Some(Prior)
    /\ raised' = FALSE
    /\ archivedKey' = None
    /\ ev' = None
    /\ UNCHANGED <<historicalActivities, messages>>

\* HandleCancel without window.location.reload()
HandleCancelWithoutReload ==
    /\ isLoading' = FALSE
    /\ effectPending' = TRUE
    /\ submitted' = None
    /\ raised' = FALSE
    /\ archivedKey' = None
    /\ prior' = Some(Prior)
    /\ archiveDue' = DueAfter(FALSE, FALSE, messages)
    /\ op' = "cancel"
    /\ typed' = None
    /\ replaced' = FALSE
    /\ ev' = None
    /\ UNCHANGED <<processedEventsTimeline, historicalActivities,
                   hasFinalizeEventOccurred, messages, form, written>>

\* handleCancel: thread.stop() and window.location.reload()
HandleCancel ==
    /\ processedEventsTimeline' = <<>>
    /\ historicalActivities' = NoHistory
    /\ hasFinalizeEventOccurred' = FALSE
    /\ messages' = <<>>
    /\ isLoading' = FALSE
    /\ submitted' = None
    /\ effectPending' = TRUE
    /\ raised' = FALSE
    /\ archivedKey' = None
    /\ prior' = Some(Prior)
    /\ form' = InitialForm
    /\ typed' = None
    /\ replaced' = FALSE
    /\ written' = FALSE
    /\ archiveDue' = "no"
    /\ op' = "cancel"
    /\ ev' = None

----------------------------------------------------------------------------
(* The transport (useStream).  It calls onUpdateEvent only while the stream *)
(* is in flight, changes thread.messages at any time (the final message may *)
(* arrive after the stream has stopped) and ends the stream at any time.    *)
(* State changes are batched: the effect runs once for any number of them   *)
(* and sees the state as committed.                                         *)

\* the stream delivers an event to onUpdateEvent
DeliverEvent ==
    /\ isLoading
    /\ Len(processedEventsTimeline) < MaxTimeline
    /\ \E e \in RunEvents : OnUpdateEvent(e)

\* thread.messages gains a message
MessagesUpdate ==
    /\ Len(messages) < MaxMessages
    /\ \E m \in MessagePool : messages' = Append(messages, m)
    /\ effectPending' = TRUE
    /\ op' = "messages"
    /\ prior' = None
    /\ raised' = FALSE
    /\ archivedKey' = None
    /\ submitted' = None
    /\ typed' = None
    /\ replaced' = FALSE
    /\ archiveDue' = DueAfter(FALSE, isLoading, messages')
    /\ ev' = None
    /\ UNCHANGED <<processedEventsTimeline, historicalActivities,
                   hasFinalizeEventOccurred, isLoading, form, written>>

\* the stream ends (finished or failed): thread.isLoading goes false
StreamStop ==
    /\ isLoading
    /\ isLoading' = FALSE
    /\ effectPending' = TRUE
    /\ op' = "stop"
    /\ prior' = None
    /\ raised' = FALSE
    /\ archivedKey' = None
    /\ submitted' = None
    /\ typed' = None
    /\ replaced' = FALSE
    /\ archiveDue' = DueAfter(FALSE, FALSE, messages)
    /\ ev' = None
    /\ UNCHANGED <<processedEventsTimeline, historicalActivities,
                   hasFinalizeEventOccurred, messages, form, written>>

\* handleSubmit called with any text and configuration
Submit ==
    /\ \E text \in Texts, config \in Configs, now \in Times :
          HandleSubmit(text, config, now)
    /\ UNCHANGED form

Next ==
    \/ DeliverEvent
    \/ ArchiveEffect
    \/ Submit
    \/ HandleCancel
    \/ MessagesUpdate
    \/ StreamStop

Spec == Init /\ [][Next]_vars

----------------------------------------------------------------------------
(* The input form in front of the handlers: its props are App's handleSubmit *)
(* (onSubmit), handleCancel (onCancel) and thread.isLoading (isLoading).     *)

Keys == {"Enter", "a"}

\* the AgentConfiguration handleInternalSubmit builds from the form's state
FormConfig ==
    [query_generator_model |-> form.queryGeneratorModel,
     reflection_model |-> form.reflectionModel,
     answer_model |-> form.answerModel,
     number_of_initial_queries |-> form.numberOfQueries,
     max_research_loops |-> form.maxLoops,
     enable_thinking |-> None]

\* const isSubmitDisabled = !internalInputValue.trim() || isLoading
IsSubmitDisabled == Trim(form.internalInputValue) = <<>> \/ isLoading

\* a form step that calls no handler of App
FormOnly(name) ==
    /\ op' = name
    /\ submitted' = None
    /\ typed' = None
    /\ replaced' = FALSE
    /\ prior' = None
    /\ raised' = FALSE
    /\ archivedKey' = None
    /\ ev' = None
    /\ UNCHANGED <<processedEventsTimeline, historicalActivities,
                   hasFinalizeEventOccurred, messages, isLoading, effectPending,
                   written, archiveDue>>

\* handleInternalSubmit
HandleInternalSubmit(now) ==
    IF Trim(form.internalInputValue) = <<>>
    THEN FormOnly("form") /\ UNCHANGED form
    ELSE /\ HandleSubmit(form.internalInputValue, FormConfig, now)
         /\ form' = [form EXCEPT !.internalInputValue = <<>>]

\* handleInternalKeyDown
HandleInternalKeyDown(key, shiftKey, now) ==
    IF key = "Enter" /\ ~shiftKey
    THEN HandleInternalSubmit(now)
    ELSE FormOnly("key") /\ UNCHANGED form

\* the textarea's onChange
ChangeText ==
    \E text \in Texts :
        /\ form' = [form EXCEPT !.internalInputValue = text]
        /\ FormOnly("type")

\* a key pressed in the textarea
KeyDown ==
    \E key \in Keys, shiftKey \in BOOLEAN, now \in Times :
        HandleInternalKeyDown(key, shiftKey, now)

\* the Search button, rendered while not loading, submits the form unless
\* it is disabled
ClickSearch ==
    /\ ~isLoading
    /\ ~IsSubmitDisabled
    /\ \E now \in Times : HandleInternalSubmit(now)

\* the Stop button, rendered while loading
ClickStop ==
    /\ isLoading
    /\ HandleCancel

NextForm ==
    \/ ChangeText
    \/ KeyDown
    \/ ClickSearch
    \/ ClickStop
    \/ DeliverEvent
    \/ ArchiveEffect
    \/ MessagesUpdate
    \/ StreamStop

SpecForm == Init /\ [][NextForm]_vars

----------------------------------------------------------------------------
(* The configuration controls of the input form *)

EFFORT_PRESETS ==
    [low |-> [queries |-> 1, loops |-> 1],
     medium |-> [queries |-> 3, loops |-> 3],
     high |-> [queries |-> 5, loops |-> 10],
     custom |-> [queries |-> 3, loops |-> 3]]

\* the values of the effort select's items
Efforts == {"low", "medium", "high", "custom"}

\* e.target.value of a numeric field, as a sequence of characters
Characters == {"0", "1", "5", "9", "-", "a", " ", "."}
Values == SeqsUpTo(Characters, MaxValueLen)

DigitCharacters == {"0", "1", "2", "3", "4", "5", "6", "7", "8", "9"}
DigitValue(c) ==
    CASE c = "0" -> 0 [] c = "1" -> 1 [] c = "2" -> 2 [] c = "3" -> 3
      [] c = "4" -> 4 [] c = "5" -> 5 [] c = "6" -> 6 [] c = "7" -> 7
      [] c = "8" -> 8 [] c = "9" -> 9

\* the longest prefix of digits
RECURSIVE LeadingDigits(_)
LeadingDigits(text) ==
    IF Len(text) > 0 /\ text[1] \in DigitCharacters
    THEN <<text[1]>> \o LeadingDigits(Tail(text))
    ELSE <<>>

RECURSIVE DigitsValue(_)
DigitsValue(digits) ==
    IF Len(digits) = 0 THEN 0
    ELSE 10 * DigitsValue(SubSeq(digits, 1, Len(digits) - 1))
            + DigitValue(digits[Len(digits)])

\* parseInt(value): leading white space skipped, an optional sign, then the
\* digits up to the first other character; NaN (None) when there is no digit
ParseInt(value) ==
    LET text == TrimStart(value)
        signed == Len(text) > 0 /\ text[1] \in {"-", "+"}
        negative == Len(text) > 0 /\ text[1] = "-"
        digits == LeadingDigits(IF signed THEN Tail(text) ELSE text)
    IN IF digits = <<>> THEN None
       ELSE Some(IF negative THEN 0 - DigitsValue(digits) ELSE DigitsValue(digits))

\* parseInt(value) || 1: NaN and 0 are falsy
OrOne(num) == IF num = None \/ num = Some(0) THEN 1 ELSE num[1]

\* variant: the second argument, whatever the first
MathMinSecond(a, b) == b

MathMin(a, b) == IF a < b THEN a ELSE b
MathMax(a, b) == IF a > b THEN a ELSE b

\* handleEffortChange
HandleEffortChange(newEffort) ==
    /\ form' =
          IF newEffort # "custom"
          THEN [form EXCEPT !.effort = newEffort,
                            !.numberOfQueries = EFFORT_PRESETS[newEffort].queries,
                            !.maxLoops = EFFORT_PRESETS[newEffort].loops]
          ELSE [form EXCEPT !.effort = newEffort]
    /\ FormOnly("effort")

\* handleQueriesChange
HandleQueriesChange(value) ==
    LET num == OrOne(ParseInt(value))
    IN /\ form' = [form EXCEPT !.numberOfQueries = MathMax(1, MathMin(10, num)),
                               !.effort = "custom"]
       /\ FormOnly("queries")

\* handleLoopsChange
HandleLoopsChange(value) ==
    LET num == OrOne(ParseInt(value))
    IN /\ form' = [form EXCEPT !.maxLoops = MathMax(1, MathMin(20, num)),
                               !.effort = "custom"]
       /\ FormOnly("loops")

SelectEffort == \E newEffort \in Efforts : HandleEffortChange(newEffort)
EnterQueries == \E value \in Values : HandleQueriesChange(value)
EnterLoops == \E value \in Values : HandleLoopsChange(value)

NextConfig ==
    \/ SelectEffort
    \/ EnterQueries
    \/ EnterLoops

SpecConfig == Init /\ [][NextConfig]_vars

----------------------------------------------------------------------------
(* Classification of one event: the handler applied once to any event of   *)
(* Events, from the states a run can be in when the event arrives.         *)

FinalizingAnswer == FinalizeResult.act[1]
CreatingQueries == Activity("Generating Search Queries", "Creating search queries...")

InitClassify ==
    /\ ev \in {Some(e) : e \in Events}
    /\ \/ /\ processedEventsTimeline \in {<<>>, <<CreatingQueries>>}
          /\ hasFinalizeEventOccurred = FALSE
          /\ archiveDue = "no"
       \/ /\ processedEventsTimeline = <<CreatingQueries, FinalizingAnswer>>
          /\ hasFinalizeEventOccurred = TRUE
          /\ archiveDue = "terminal"
    /\ historicalActivities = NoHistory
    /\ messages = <<>>
    /\ isLoading = TRUE
    /\ submitted = None
    /\ effectPending = FALSE
    /\ raised = FALSE
    /\ archivedKey = None
    /\ prior = None
    /\ form = InitialForm
    /\ typed = None
    /\ replaced = FALSE
    /\ written = FALSE
    /\ op = "emit"

HandleEmitted == op = "emit" /\ OnUpdateEvent(ev[1])

NextClassify == HandleEmitted

SpecClassify == InitClassify /\ [][NextClassify]_vars

----------------------------------------------------------------------------
(* Archive effect *)

LastId(msgs) == msgs[Len(msgs)].id[1]

\* the effect runs in this step, from a state where the flag is set, loading
\* is false and the last message is an agent message with an id
ArchivingStep ==
    /\ op' = "effect"
    /\ hasFinalizeEventOccurred
    /\ ~isLoading
    /\ EndsInAgentMessage(messages)

\* C1: an effect run from a state with the terminal flag set, loading false
\* and the message list ending in an agent message with id m leaves
\* historicalActivities[m] equal to the live timeline as it was before the
\* step (same activities, same order) and the terminal flag false.
C1_ArchiveStoresTimeline ==
    [][ArchivingStep =>
        /\ LastId(messages) \in DOMAIN historicalActivities'
        /\ historicalActivities'[LastId(messages)] = processedEventsTimeline
        /\ ~hasFinalizeEventOccurred']_vars

\* a two-activity timeline has just been archived under "m1"
C1_Witness ==
    /\ op = "effect"
    /\ archivedKey = Some("m1")
    /\ "m1" \in DOMAIN historicalActivities
    /\ historicalActivities["m1"] = <<CreatingQueries, FinalizingAnswer>>
    /\ ~hasFinalizeEventOccurred

\* C2: every step that writes the live timeline into the store leaves the
\* live timeline empty (the archive is a move, not a copy).
C2_ArchiveClearsTimeline ==
    [][archivedKey' # None => processedEventsTimeline' = <<>>]_vars

\* C3: an effect run from a state with the terminal flag set and loading
\* false, but with no agent message with an id at the end of the message
\* list (empty list, other author, no id), leaves the terminal flag set.
C3_FlagKeptWithoutArchive ==
    [][(/\ op' = "effect"
        /\ hasFinalizeEventOccurred
        /\ ~isLoading
        /\ ~EndsInAgentMessage(messages)) => hasFinalizeEventOccurred']_vars

\* the store gains or rewrites exactly the entry of the last message's id
WritesLastId ==
    /\ DOMAIN historicalActivities' = DOMAIN historicalActivities \cup {LastId(messages)}
    /\ \A k \in DOMAIN historicalActivities :
          k # LastId(messages) => historicalActivities'[k] = historicalActivities[k]

\* C4, as stated: the store changes only in an effect run from a state with
\* the flag set, loading false and an agent message with an id last, and
\* the key written is that message's id.
C4_StoreChangesOnlyByArchive ==
    [][historicalActivities' # historicalActivities =>
        ArchivingStep /\ WritesLastId]_vars

\* C4, amended: the store changes only in such an effect run, which writes
\* the entry of the last message's id and no other, or in a cancel, which
\* empties it; every other step leaves it as it was.
C4_StoreChangesOnlyByArchiveOrCancel ==
    [][historicalActivities' # historicalActivities =>
        \/ ArchivingStep /\ WritesLastId
        \/ op' = "cancel" /\ historicalActivities' = NoHistory]_vars

\* loading went false with no terminal activity seen in the run, the effect
\* has run, and the store written by an earlier run is as that run left it
C4_Witness ==
    /\ op = "effect"
    /\ ~isLoading
    /\ archivedKey = None
    /\ archiveDue = "no"
    /\ processedEventsTimeline = <<CreatingQueries>>
    /\ EndsInAgentMessage(messages)
    /\ DOMAIN historicalActivities = {"m1"}
    /\ LastId(messages) = "m2"

\* C5: once a terminal activity was seen in the run and loading went false
\* with no agent message with an id at the end of the list, a message list
\* that comes to end in such a message (no submit or cancel since) gets the
\* run archived: when no effect run is outstanding, the archive is made.
C5_StalledArchiveIsMade ==
    (archiveDue = "stalled" /\ ~isLoading /\ EndsInAgentMessage(messages))
        => effectPending

----------------------------------------------------------------------------
(* Submit and cancel *)

\* C6: a submit of text that is not empty after trimming hands the request
\* to the transport with the live timeline empty and the terminal flag
\* false, whatever they were before.
C6_SubmitClearsRunState ==
    [][(op' = "submit" /\ submitted' # None) =>
        /\ processedEventsTimeline' = <<>>
        /\ ~hasFinalizeEventOccurred']_vars

\* a request was dispatched by a submit issued with a non-empty timeline
\* and the flag set
C6_Witness ==
    /\ op = "submit"
    /\ submitted # None
    /\ prior = Some([live |-> TRUE, flag |-> TRUE])
    /\ processedEventsTimeline = <<>>
    /\ ~hasFinalizeEventOccurred

\* C7: a cancel, from any state, stops the transport and leaves the state
\* of a freshly loaded page: live timeline empty, terminal flag false, and
\* no entry in the store.
C7_CancelResets ==
    [][op' = "cancel" =>
        /\ ~isLoading'
        /\ processedEventsTimeline' = <<>>
        /\ ~hasFinalizeEventOccurred'
        /\ historicalActivities' = NoHistory
        /\ messages' = <<>>]_vars

\* a cancel was issued mid-run with a non-empty timeline and the flag set
C7_Witness ==
    /\ op = "cancel"
    /\ prior = Some([live |-> TRUE, flag |-> TRUE])
    /\ processedEventsTimeline = <<>>
    /\ ~hasFinalizeEventOccurred
    /\ historicalActivities = NoHistory

----------------------------------------------------------------------------
(* Classification *)

StageKey(e, s) ==
    CASE s = GenerateQuery -> e.generate_query
      [] s = WebResearch -> e.web_research
      [] s = Reflection -> e.reflection
      [] s = FinalizeAnswer -> e.finalize_answer
StageKeys(e) == {s \in Stages : StageKey(e, s) # None}

\* the two shapes of the stream: an event with no stage key, and an event
\* that is nothing but one stage key
TracedShape(e) == StageKeys(e) = {}
FlattenedShape(e) ==
    /\ e.event = None /\ e.type = None /\ e.name = None /\ e.data = None
    /\ Cardinality(StageKeys(e)) = 1

TracedStart(e, s) ==
    TracedShape(e) /\ EventType(e) = Some(ChainStart) /\ e.name = Some(s)

FinalizeStartEvent(e) ==
    \/ TracedStart(e, FinalizeAnswer)
    \/ FlattenedShape(e) /\ StageKeys(e) = {FinalizeAnswer}

AppendsFinalizingAnswer ==
    processedEventsTimeline' = Append(processedEventsTimeline, FinalizingAnswer)

\* C8: handling a finalize_answer start event (traced start, or the
\* flattened finalize_answer key) sets the terminal flag; handling any other
\* event of either shape leaves the flag as it was; and for any event at
\* all the flag changes only together with the append of "Finalizing Answer".
C8_OnlyFinalizeSetsFlag ==
    [][op' = "event" =>
        LET e == ev'[1]
        IN /\ FinalizeStartEvent(e) => hasFinalizeEventOccurred'
           /\ ((TracedShape(e) \/ FlattenedShape(e)) /\ ~FinalizeStartEvent(e))
                => hasFinalizeEventOccurred' = hasFinalizeEventOccurred
           /\ hasFinalizeEventOccurred' # hasFinalizeEventOccurred
                => AppendsFinalizingAnswer]_vars

\* the flattened finalize_answer event, handled with the flag not set
C8_Witness ==
    /\ op = "event"
    /\ ev = Some(Event(None, None, None, None, None, None, None, Some(EmptyOutput)))
    /\ processedEventsTimeline = <<FinalizingAnswer>>
    /\ hasFinalizeEventOccurred

\* no stage key, and an event type other than chain start / end or a name
\* that is no stage
Unrecognized(e) ==
    /\ StageKeys(e) = {}
    /\ \/ EventType(e) \notin {Some(ChainStart), Some(ChainEnd)}
       \/ e.name \notin {Some(s) : s \in Stages}

\* C9: handling an event that matches no stage in either shape changes
\* neither the live timeline, nor the terminal flag, nor the store, and
\* does not throw.
C9_UnrecognizedIsDropped ==
    [][(op' = "event" /\ Unrecognized(ev'[1])) =>
        /\ processedEventsTimeline' = processedEventsTimeline
        /\ hasFinalizeEventOccurred' = hasFinalizeEventOccurred
        /\ historicalActivities' = historicalActivities
        /\ ~raised']_vars

\* an event of another type that names a stage and carries its output
C9_Witness ==
    /\ op = "event"
    /\ ev = Some(Traced("on_tool_start", GenerateQuery,
                        Data(Some(Output(Some(<<"q1">>), None, None, None)))))
    /\ processedEventsTimeline = <<CreatingQueries>>
    /\ ~hasFinalizeEventOccurred
    /\ ~raised

\* the start activity of each stage
StartActivity(s) ==
    CASE s = GenerateQuery -> Activity("Generating Search Queries", "Creating search queries...")
      [] s = WebResearch -> Activity("Web Research", "Searching the web...")
      [] s = Reflection -> Activity("Reflection", "Analyzing gathered information...")
      [] s = FinalizeAnswer ->
            Activity("Finalizing Answer", "Composing and presenting the final answer.")

\* C10: a traced start event of a stage that carries no output (no data, or
\* data without output) gives that stage's start activity.
C10_StartEventGivesStartActivity ==
    [][op' = "event" =>
        \A s \in Stages :
            (TracedStart(ev'[1], s) /\ ev'[1].data \in {None, Data(None)}) =>
                /\ ~raised'
                /\ processedEventsTimeline' =
                      Append(processedEventsTimeline, StartActivity(s))]_vars

\* an end event of stage s in either shape: a traced chain end of s that
\* carries an output, or the flattened key s
StageOutput(e, s) ==
    IF FlattenedShape(e) THEN StageKey(e, s)[1] ELSE e.data[1].output[1]
StageEnd(e, s) ==
    \/ /\ TracedShape(e) /\ EventType(e) = Some(ChainEnd) /\ e.name = Some(s)
       /\ e.data # None /\ e.data[1].output # None
    \/ FlattenedShape(e) /\ StageKeys(e) = {s}

\* the source records of a web_research output, none when the list is absent
SourcesOf(out) ==
    IF out.sources_gathered = None THEN <<>> ELSE out.sources_gathered[1]

\* positions of the records whose label is there, non-empty and not carried
\* by an earlier record; of those, the first three
FirstOccurrences(sources) ==
    {i \in 1..Len(sources) :
        /\ sources[i][1].label \notin {None, Some("")}
        /\ \A j \in 1..(i - 1) : sources[j][1].label # sources[i][1].label}
FirstThree(sources) ==
    {i \in FirstOccurrences(sources) :
        Cardinality({j \in FirstOccurrences(sources) : j < i}) < 3}
RECURSIVE LabelsAt(_, _)
LabelsAt(sources, P) ==
    IF P = {} THEN <<>>
    ELSE LET i == CHOOSE i \in P : \A j \in P : i <= j
         IN <<sources[i][1].label[1]>> \o LabelsAt(sources, P \ {i})
RelatedTo(labels) ==
    CASE Len(labels) = 0 -> "N/A"
      [] Len(labels) = 1 -> labels[1]
      [] Len(labels) = 2 -> labels[1] \o ", " \o labels[2]
      [] Len(labels) = 3 -> labels[1] \o ", " \o labels[2] \o ", " \o labels[3]
GatheredActivity(sources) ==
    Activity("Web Research",
             "Gathered " \o ToString(Len(sources)) \o " sources. Related to: "
                 \o RelatedTo(LabelsAt(sources, FirstThree(sources))) \o ".")

\* C11: a web_research end event of either shape whose source records are
\* all objects appends the activity "Web Research" with the data "Gathered N
\* sources. Related to: L.": N counts every record (duplicates and records
\* without a label too, 0 for an absent list), L is the first three
\* distinct non-empty labels in order of first occurrence joined by ", ",
\* or "N/A" when there is none.
C11_WebResearchEndActivity ==
    [][(op' = "event" /\ StageEnd(ev'[1], WebResearch)) =>
        LET sources == SourcesOf(StageOutput(ev'[1], WebResearch))
        IN (\A i \in 1..Len(sources) : sources[i] # None) =>
              /\ ~raised'
              /\ processedEventsTimeline' =
                    Append(processedEventsTimeline, GatheredActivity(sources))]_vars

\* four distinct labels, of which the fourth is cut off
C11_Witness ==
    /\ op = "event"
    /\ ev = Some(Event(None, None, None, None, None,
                       Some(Output(None,
                                   Some(<<Some([label |-> Some("d")]),
                                          Some([label |-> Some("c")]),
                                          Some([label |-> Some("b")]),
                                          Some([label |-> Some("a")])>>),
                                   None, None)),
                       None, None))
    /\ processedEventsTimeline =
          <<Activity("Web Research", "Gathered 4 sources. Related to: d, c, b.")>>

\* a repeated label and a record without a label count as sources
C11_WitnessCount ==
    /\ op = "event"
    /\ ev = Some(Traced(ChainEnd, WebResearch,
                        Data(Some(Output(None,
                                         Some(<<Some([label |-> Some("a")]),
                                                Some([label |-> Some("a")]),
                                                Some([label |-> None]),
                                                Some([label |-> Some("b")])>>),
                                         None, None)))))
    /\ processedEventsTimeline =
          <<Activity("Web Research", "Gathered 4 sources. Related to: a, b.")>>

\* the follow-up queries of a reflection output, none when the list is absent
FollowUpsOf(out) ==
    IF out.follow_up_queries = None THEN <<>> ELSE out.follow_up_queries[1]
NeedMoreInformation(followUps) ==
    "Need more information, searching for "
        \o (IF Len(followUps) = 0 THEN "additional info" ELSE Join(followUps, ", "))
        \o "."

\* C12: a reflection end event of either shape appends the activity
\* "Reflection"; its data is "Search successful, generating final answer."
\* when the sufficiency flag is true, and otherwise "Need more information,
\* searching for Q." with the closing period, Q being the follow-up queries
\* joined by ", ", or "additional info" when the list is empty or absent.
C12_ReflectionEndActivity ==
    [][(op' = "event" /\ StageEnd(ev'[1], Reflection)) =>
        LET out == StageOutput(ev'[1], Reflection)
        IN /\ ~raised'
           /\ processedEventsTimeline' =
                 Append(processedEventsTimeline,
                        Activity("Reflection",
                                 IF out.is_sufficient = Some(TRUE)
                                 THEN "Search successful, generating final answer."
                                 ELSE NeedMoreInformation(FollowUpsOf(out))))]_vars

----------------------------------------------------------------------------
(* Runs *)

\* a step that writes an entry of the store
StoreWrite ==
    /\ op' # "cancel"
    /\ archivedKey' # None \/ historicalActivities' # historicalActivities

\* C13: within one run, from a submit to the next submit or cancel, the
\* store is written at most once: no step writes it when it has been
\* written since the last submit or cancel.
C13_OneWritePerRun ==
    [][StoreWrite => ~written]_vars

\* the one write of a second run
C13_Witness ==
    /\ op = "effect"
    /\ archivedKey = Some("m2")
    /\ DOMAIN historicalActivities = {"m1", "m2"}
    /\ written

\* the entry under key k is not the same after the step
EntryChanged(k) ==
    k \notin DOMAIN historicalActivities'
        \/ historicalActivities'[k] # historicalActivities[k]

\* C14 as stated: once the store holds an entry for an id, no later
\* classification, reconciliation or submit changes the list stored under
\* that id.
C14_EntriesNeverChange ==
    [][op' # "cancel" =>
        \A k \in DOMAIN historicalActivities : ~EntryChanged(k)]_vars

\* C14, amended: the list stored under an id changes only when the
\* reconciliation of a later run archives under that same id again (the
\* last message is still the agent message with that id), which replaces
\* the list by the live timeline of that run, or when a cancel empties the
\* store; classification and submit change no entry.
C14_EntryChangesOnlyByReArchive ==
    [][\A k \in DOMAIN historicalActivities :
         EntryChanged(k) =>
            \/ op' = "cancel" /\ historicalActivities' = NoHistory
            \/ /\ op' = "effect"
               /\ ~written
               /\ hasFinalizeEventOccurred /\ ~isLoading
               /\ EndsInAgentMessage(messages) /\ LastId(messages) = k
               /\ k \in DOMAIN historicalActivities'
               /\ historicalActivities'[k] = processedEventsTimeline]_vars

\* the second run ended with the last message still m1: its timeline has
\* replaced the entry of the first run
C14_Witness ==
    /\ op = "effect"
    /\ replaced
    /\ archivedKey = Some("m1")
    /\ historicalActivities["m1"] = <<CreatingQueries, FinalizingAnswer>>

----------------------------------------------------------------------------
(* Submit *)

\* nothing but white space, or nothing at all
BlankText(text) == \A i \in 1..Len(text) : text[i] = " "

\* C15: a submit whose text is empty after trimming does nothing: no
\* request is dispatched, and the live timeline, the terminal flag, the
\* store, the message list and loading are as before.
C15_BlankSubmitIsNoOp ==
    [][(op' = "submit" /\ BlankText(typed'[1])) =>
          /\ submitted' = None
          /\ UNCHANGED <<processedEventsTimeline, hasFinalizeEventOccurred,
                         historicalActivities, messages, isLoading>>]_vars

\* white space submitted while a run has its terminal activity and the store
\* an entry
C15_Witness ==
    /\ op = "submit"
    /\ typed = Some(<<" ", " ">>)
    /\ submitted = None
    /\ processedEventsTimeline = <<FinalizingAnswer>>
    /\ hasFinalizeEventOccurred
    /\ isLoading
    /\ DOMAIN historicalActivities = {"m1"}

----------------------------------------------------------------------------
(* Appending *)

\* the timeline after the step is the one before it followed by activity a
AppendsExactly(a) ==
    /\ Len(processedEventsTimeline') = Len(processedEventsTimeline) + 1
    /\ \A i \in 1..Len(processedEventsTimeline) :
          processedEventsTimeline'[i] = processedEventsTimeline[i]
    /\ processedEventsTimeline'[Len(processedEventsTimeline')] = a

\* C16: every delivered event that classifies to an activity leaves the
\* live timeline equal to its previous contents followed by exactly that
\* activity, also when the timeline already holds an equal activity.
C16_ClassifiedEventIsAppended ==
    [][(op' = "event" /\ Classify(ev'[1]).act # None) =>
          AppendsExactly(Classify(ev'[1]).act[1])]_vars

\* the generate_query start activity appended to a timeline that holds it
C16_Witness ==
    /\ op = "event"
    /\ ev = Some(Traced(ChainStart, GenerateQuery, Data(None)))
    /\ processedEventsTimeline = <<CreatingQueries, CreatingQueries>>

\* C17: every delivered event appends at most one activity. When the first
\* block (event type and name) gives an activity, that activity is the one
\* appended and the flag is set only if that block set it, whatever stage
\* keys the event carries as well; the stage keys decide only when the
\* first block gave nothing.
C17_TracedFormFirst ==
    [][op' = "event" =>
        LET traced == TracedForm(ev'[1])
            flattened == FlattenedForm(ev'[1])
        IN /\ Len(processedEventsTimeline') <= Len(processedEventsTimeline) + 1
           /\ traced.act # None =>
                 /\ AppendsExactly(traced.act[1])
                 /\ hasFinalizeEventOccurred' = (hasFinalizeEventOccurred \/ traced.fin)
           /\ (traced.act = None /\ ~traced.err /\ flattened.act # None) =>
                 AppendsExactly(flattened.act[1])
           /\ (traced.act = None /\ (traced.err \/ flattened.act = None)) =>
                 processedEventsTimeline' = processedEventsTimeline]_vars

\* a generate_query start that carries a finalize_answer key as well: the
\* start activity is appended and the flag is not set
C17_Witness ==
    /\ op = "event"
    /\ ev = Some(Event(Some(ChainStart), None, Some(GenerateQuery), Data(None),
                       None, None, None, Some(EmptyOutput)))
    /\ processedEventsTimeline = <<CreatingQueries>>
    /\ ~hasFinalizeEventOccurred

----------------------------------------------------------------------------
(* Malformed events *)

StageTitle(s) ==
    CASE s = GenerateQuery -> "Generating Search Queries"
      [] s = WebResearch -> "Web Research"
      [] s = Reflection -> "Reflection"
      [] s = FinalizeAnswer -> "Finalizing Answer"

\* C18: the handler does not raise on an end event of a recognized stage,
\* in either shape, whatever is missing in it (the source list, a source
\* record that is null or has no label, the query list, the follow-up
\* list): it appends the stage's activity, and for web_research with no
\* source list the activity reports 0 sources related to N/A.
C18_MalformedEventIsClassified ==
    [][op' = "event" =>
        \A s \in {GenerateQuery, WebResearch, Reflection} :
            StageEnd(ev'[1], s) =>
                /\ ~raised'
                /\ Len(processedEventsTimeline') = Len(processedEventsTimeline) + 1
                /\ processedEventsTimeline'[Len(processedEventsTimeline')].title
                      = StageTitle(s)
                /\ (s = WebResearch
                      /\ StageOutput(ev'[1], s).sources_gathered = None) =>
                        processedEventsTimeline'[Len(processedEventsTimeline')].data
                          = "Gathered 0 sources. Related to: N/A."]_vars

----------------------------------------------------------------------------
(* The terminal flag and the terminal activity *)

HoldsFinalizing(timeline) ==
    \E i \in 1..Len(timeline) : timeline[i].title = "Finalizing Answer"

\* C19: in every reachable state where the terminal flag is true the live
\* timeline, which holds what was appended since the last submit, contains
\* a "Finalizing Answer" activity; and every entry of the store is
\* non-empty and contains one.
C19_FlagMeansFinalizingIsLive ==
    /\ hasFinalizeEventOccurred => HoldsFinalizing(processedEventsTimeline)
    /\ \A k \in DOMAIN historicalActivities :
          /\ historicalActivities[k] # <<>>
          /\ HoldsFinalizing(historicalActivities[k])

\* the flag set in a second run, the first one archived
C19_Witness ==
    /\ hasFinalizeEventOccurred
    /\ processedEventsTimeline = <<CreatingQueries, FinalizingAnswer>>
    /\ DOMAIN historicalActivities = {"m1"}
    /\ historicalActivities["m1"] = <<FinalizingAnswer>>

----------------------------------------------------------------------------
(* The input form *)

\* C20: the input form starts no submission while a run is in flight:
\* whatever the user does on the form while loading is true (the submit
\* button, Enter without Shift), onSubmit is not called.
C20_NoSubmitWhileLoading ==
    [][typed' # None => ~isLoading]_vars

\* C21: after any sequence of effort selections and of entries in the two
\* numeric fields, whatever is entered, the number of queries is in 1..10
\* and the number of loops in 1..20; and when the effort is low, medium or
\* high the two are that preset's: (1, 1), (3, 3) or (5, 10).
C21_ConfigInRange ==
    /\ form.numberOfQueries \in 1..10
    /\ form.maxLoops \in 1..20
    /\ form.effort = "low" => (form.numberOfQueries = 1 /\ form.maxLoops = 1)
    /\ form.effort = "medium" => (form.numberOfQueries = 3 /\ form.maxLoops = 3)
    /\ form.effort = "high" => (form.numberOfQueries = 5 /\ form.maxLoops = 10)

\* the loops field after an oversized entry (no entry spells 20), the
\* queries field holding the floor
C21_Witness ==
    /\ op = "loops"
    /\ form.effort = "custom"
    /\ form.maxLoops = 20
    /\ form.numberOfQueries = 1

====
